---- MODULE Spec2Model ----
(***************************************************************************)
(* Shortify: the short-link store (models/url.py), the API endpoints over  *)
(* it (api/v1/endpoints/urls.py), the principal resolution and the gates   *)
(* of the API (api/v1/deps.py) and of the admin surface (admin/deps.py,    *)
(* admin/router.py).                                                       *)
(*                                                                         *)
(* Every request is an asyncio task; a handler is atomic between two       *)
(* awaits on the database, and each database command (find_one, insert,    *)
(* update, delete) is atomic on the server.  A handler that loads a        *)
(* document and writes it back later is therefore two steps of one worker. *)
(***************************************************************************)
EXTENDS Integers, Sequences, FiniteSets, TLC

VARIABLES
    urls,     \* the "urls" collection: _id -> document, or NoDoc
    nextId,   \* the next ObjectId the driver hands out (never reused)
    now,      \* datetime.datetime.now(datetime.UTC)
    req,      \* per worker: the request it serves and the instance it holds
    last,     \* the response of the request completed last
    started,  \* requests that have loaded a document to visit, update or delete
    hist,     \* history: per _id what shorten was called with, visits completed
    users,    \* the "users" collection: _id -> document, or NoDoc
    cookie,   \* the access_token cookie the browser holds, or NoToken
    bearer,   \* the bearer token the API client holds, or NoToken
    hits,     \* login attempts the limiter has counted in the current minute
    minted,   \* history: when and with what expires_delta each held token was issued
    auth      \* the step just taken: the request's credentials, its gate's outcome

storeVars == <<urls, nextId, now, req, last, started, hist>>
authVars == <<users, cookie, bearer, hits, minted, auth>>
vars == <<urls, nextId, now, req, last, started, hist, users, cookie, bearer,
          hits, minted, auth>>

-----------------------------------------------------------------------------
(* Bounds of the model *)

MaxUrls == 2      \* documents ever inserted
MaxTime == 2      \* the clock runs 0..MaxTime
MaxRequests == 2  \* redirect, update and delete requests that found their document
MaxDays == 1      \* days the clock of the authenticated surfaces advances

Workers == {"w1", "w2"}
UrlIds == 1..MaxUrls

-----------------------------------------------------------------------------
(* Values *)

None == "<None>"              \* Python None, for an optional string
NoTime == -1                  \* Python None, for an optional datetime
NoDoc == [absent |-> TRUE]    \* find_one / get found nothing

\* generate_ident(length): random.choices over the alphabet; any identifier
\* of the namespace may come out, an earlier one included.
generate_ident == {"abc-def", "ghi-jkl"}

\* Parsed pydantic AnyUrl values a payload can carry.
AnyUrls == {[scheme |-> "https", host |-> "example.com", path |-> "/a"],
            [scheme |-> "https", host |-> "example.org", path |-> "/b"]}

encoded_string(url) == url.scheme \o "://" \o url.host \o url.path

ExternalIds == {"promo-1", "promo-2"}

\* class ShortUrl(Document): the fields and their defaults, as shorten
\* constructs the document.
ShortUrl(id, ident, url, external_id, expires_at, user_id, t) ==
    [id            |-> id,
     ident         |-> ident,
     external_id   |-> external_id,
     origin        |-> encoded_string(url),
     views         |-> 0,
     created_at    |-> t,
     updated_at    |-> NoTime,
     expires_at    |-> expires_at,
     last_visit_at |-> NoTime,
     user_id       |-> user_id]

Stored(store) == {id \in DOMAIN store : store[id] # NoDoc}

-----------------------------------------------------------------------------
(* The collection's unique indexes and the database commands *)

\* The indexes with external_id's declared without unique=True.
DuplicateIdent(doc, store) ==
    \E j \in Stored(store) : j # doc.id /\ store[j].ident = doc.ident

\* The indexes with external_id's declared without its
\* partialFilterExpression: null is indexed as a value like any other.
DuplicateKey_unfiltered(doc, store) ==
    \E j \in Stored(store) :
        /\ j # doc.id
        /\ \/ store[j].ident = doc.ident
           \/ store[j].external_id = doc.external_id

\* ident: Indexed(str, unique=True); external_id: unique among strings
\* (partialFilterExpression {"external_id": {"$type": "string"}}).
DuplicateKey(doc, store) ==
    \E j \in Stored(store) :
        /\ j # doc.id
        /\ \/ store[j].ident = doc.ident
           \/ doc.external_id # None /\ store[j].external_id = doc.external_id

\* Document.insert(): the document is stored unless an index rejects it.
insert(doc, store) ==
    IF DuplicateKey(doc, store)
    THEN [ok |-> FALSE, store |-> store]
    ELSE [ok |-> TRUE, store |-> [store EXCEPT ![doc.id] = doc]]

\* ShortUrl.shorten: one insert of a freshly built document, no retry.
shorten(id, ident, url, external_id, expires_at, user_id, store, t) ==
    insert(ShortUrl(id, ident, url, external_id, expires_at, user_id, t), store)

\* The query  cls.expires_at > now : {"expires_at": {"$gt": now}}.  A
\* comparison with a date matches only documents whose field is a date: a
\* document whose expires_at is null does not match.
NotExpired(doc, t) == doc.expires_at # NoTime /\ doc.expires_at > t

\* get_by_ident without the not-expired predicate in its query.
get_by_ident_unchecked(ident, is_check_expires_at, store, t) ==
    LET m == {id \in Stored(store) : store[id].ident = ident}
    IN  IF m = {} THEN NoDoc ELSE store[CHOOSE id \in m : \A j \in m : id <= j]

\* ShortUrl.get_by_ident
get_by_ident(ident, is_check_expires_at, store, t) ==
    LET m == {id \in Stored(store) :
                /\ store[id].ident = ident
                /\ is_check_expires_at => NotExpired(store[id], t)}
    IN  IF m = {} THEN NoDoc ELSE store[CHOOSE id \in m : \A j \in m : id <= j]

\* ShortUrl.get_by_external_id
get_by_external_id(external_id, store) ==
    LET m == {id \in Stored(store) : store[id].external_id = external_id}
    IN  IF m = {} THEN NoDoc ELSE store[CHOOSE id \in m : \A j \in m : id <= j]

\* ShortUrl.visit: the increment is computed on the instance in memory;
\* save_changes() sends $set of the changed fields to the document of the
\* instance's _id (nothing is written when it is gone).
visit(instance, store, t) ==
    IF store[instance.id] = NoDoc
    THEN store
    ELSE [store EXCEPT ![instance.id] =
              [@ EXCEPT !.views = instance.views + 1, !.last_visit_at = t]]

\* Document.save(): $set of every field of the instance on the document of
\* its _id, with upsert: a document deleted meanwhile is stored again.  The
\* unique indexes reject the write as they reject an insert.
save(instance, store) ==
    IF DuplicateKey(instance, store)
    THEN [ok |-> FALSE, store |-> store]
    ELSE [ok |-> TRUE, store |-> [store EXCEPT ![instance.id] = instance]]

\* A delete whose filter matches every document of the collection.
delete_unfiltered(ids, store) ==
    [id \in DOMAIN store |-> NoDoc]

\* Document.delete(), and find({"_id": {"$in": ids}}).delete()
delete(ids, store) ==
    [id \in DOMAIN store |-> IF id \in ids THEN NoDoc ELSE store[id]]

\* str(update_data["url"]): of an AnyUrl its text, of None the text "None".
NoUrl == [none |-> TRUE]
str(v) == IF v = NoUrl THEN "None" ELSE encoded_string(v)

\* schemas.ShortUrlUpdate after payload.dict(exclude_unset=True): the names
\* of the fields the request supplied, and their values.
Payload(fields, url, external_id, expires_at) ==
    [fields |-> fields, url |-> url, external_id |-> external_id,
     expires_at |-> expires_at]

\* SuperuserViews._update_short_url, up to its save: the instance with the
\* supplied fields replaced and updated_at set.
update_short_url_fields(short_url, payload, t) ==
    [short_url EXCEPT
        !.origin = IF "url" \in payload.fields THEN str(payload.url) ELSE @,
        !.external_id = IF "external_id" \in payload.fields
                        THEN payload.external_id ELSE @,
        !.expires_at = IF "expires_at" \in payload.fields
                       THEN payload.expires_at ELSE @,
        !.updated_at = t]

\* The admin form's expires_at text: "" when the field is empty, a text in
\* the format %Y-%m-%dT%H:%M, or any other text; None when it is not sent.
FormTime(t) == <<"%Y-%m-%dT%H:%M", t>>
FormGarbage == <<"garbage", 0>>
FormEmpty == <<"", 0>>
FormAbsent == <<"<None>", 0>>      \* the form has no expires_at field

\* datetime.datetime.strptime(expires_at, "%Y-%m-%dT%H:%M"): the time the
\* text denotes, or ValueError.
strptime(text) ==
    IF text[1] = "%Y-%m-%dT%H:%M"
    THEN [ok |-> TRUE, value |-> text[2]]
    ELSE [ok |-> FALSE, value |-> NoTime]

\* admin url_update, up to its save: origin and external_id are always
\* replaced ("" counts as None); expires_at is replaced by the parsed text,
\* kept when the text does not parse, cleared when the text is empty.
\* updated_at is not touched.
url_update_fields(short_url, origin, external_id, expires_at) ==
    [short_url EXCEPT
        !.origin = origin,
        !.external_id = IF external_id \in {"", None} THEN None ELSE external_id,
        !.expires_at = IF expires_at \notin {FormEmpty, FormAbsent}
                       THEN (IF strptime(expires_at).ok
                             THEN strptime(expires_at).value ELSE @)
                       ELSE NoTime]

\* The TTL index on expires_at (expireAfterSeconds=0): the server's monitor
\* may remove a document once its expires_at has been reached.
Reapable(doc, t) == doc.expires_at # NoTime /\ doc.expires_at <= t

-----------------------------------------------------------------------------
(* Principals, tokens and the gates *)

\* settings.ACCESS_TOKEN_EXPIRE_MINUTES = 60 * 24 * 1; the clock counts minutes.
ACCESS_TOKEN_EXPIRE_MINUTES == 1440
MinutesPerDay == 1440

SECRET_KEY == "settings.SECRET_KEY"

NoToken == [none |-> TRUE]     \* no cookie / no Authorization header
NoDelta == -1                  \* expires_delta=None
MinutesPerHour == 60

\* security.create_access_token: {"exp": expire, "sub": str(subject)} signed
\* with SECRET_KEY.  "if expires_delta:" is false for None and for a zero
\* timedelta alike; then the expiry is
\* now + timedelta(ACCESS_TOKEN_EXPIRE_MINUTES), and timedelta's first
\* positional parameter is days.
create_access_token(subject, expires_delta, t) ==
    [sub |-> subject,
     exp |-> IF expires_delta # NoDelta /\ expires_delta # 0
             THEN t + expires_delta
             ELSE t + ACCESS_TOKEN_EXPIRE_MINUTES * MinutesPerDay,
     key |-> SECRET_KEY]

\* A token signed with a key that is not the server's, and a text that is no
\* JWT at all.
Forged(subject, t) == [sub |-> subject, exp |-> t + 1, key |-> "attacker"]
Garbage == [sub |-> None, exp |-> 0, key |-> ""]

UserIds == {"admin", "fresh", "basic"}

\* The principals of the deployment: an enrolled superuser, a superuser who
\* has not enrolled a TOTP secret, and a regular user.
User(id, is_superuser, totp_secret) ==
    [id |-> id, username |-> id, password |-> "pw-" \o id,
     api_key |-> "key-" \o id, is_active |-> TRUE,
     is_superuser |-> is_superuser, totp_secret |-> totp_secret]

InitUsers ==
    [id \in UserIds |->
        CASE id = "admin" -> User(id, TRUE, "JBSWY3DP")
          [] id = "fresh" -> User(id, TRUE, None)
          [] OTHER        -> User(id, FALSE, None)]

ApiKeys == {"key-" \o id : id \in UserIds} \cup {"key-unknown"}

\* User.get(id)
User_get(id, us) == IF id \in DOMAIN us THEN us[id] ELSE NoDoc

\* User.get_by_api_key(api_key=...)
get_by_api_key(api_key, us) ==
    LET m == {id \in Stored(us) : us[id].api_key = api_key}
    IN  IF m = {} THEN NoDoc ELSE us[CHOOSE id \in m : TRUE]

\* User.authenticate(username=..., password=...)
authenticate(username, password, us) ==
    LET m == {id \in Stored(us) :
                us[id].username = username /\ us[id].password = password}
    IN  IF m = {} THEN NoDoc ELSE us[CHOOSE id \in m : TRUE]

\* jwt.decode(token, settings.SECRET_KEY, algorithms=[ALGORITHM]) followed by
\* AuthTokenPayload(**payload): the signature must verify and the token must
\* not be past its exp.
jwt_decode(token, t) ==
    IF token.key = SECRET_KEY /\ token.exp >= t
    THEN [ok |-> TRUE, sub |-> token.sub]
    ELSE [ok |-> FALSE, sub |-> None]

\* The outcome of a dependency: the principal, or the HTTPException raised.
Resolved(user) == [status |-> 200, detail |-> "", user |-> user]
Raised(status, detail) == [status |-> status, detail |-> detail, user |-> NoDoc]

\* authenticate_bearer_token telling an expired token from a forged one.
authenticate_bearer_token_expiry_told(token, us, t) ==
    IF token.key = SECRET_KEY /\ token.exp < t
    THEN Raised(403, "Signature has expired")
    ELSE IF ~jwt_decode(token, t).ok
    THEN Raised(403, "Could not validate credentials")
    ELSE Resolved(User_get(jwt_decode(token, t).sub, us))

\* deps.authenticate_bearer_token
authenticate_bearer_token(token, us, t) ==
    IF ~jwt_decode(token, t).ok
    THEN Raised(403, "Could not validate credentials")
    ELSE Resolved(User_get(jwt_decode(token, t).sub, us))

\* get_current_user with the bearer token looked at first.
get_current_user_token_first(api_key, token, us, t) ==
    LET r == IF token # NoToken THEN authenticate_bearer_token(token, us, t)
             ELSE IF api_key # None THEN Resolved(get_by_api_key(api_key, us))
             ELSE Raised(403, "Not authenticated")
    IN  IF r.status # 200 THEN r
        ELSE IF r.user = NoDoc
        THEN (IF api_key # None THEN Raised(403, "Invalid API key")
              ELSE Raised(404, "User not found"))
        ELSE r

\* get_current_user with the failure of an unmatched API key reported as
\* that of an unmatched token subject.
get_current_user_one_failure(api_key, token, us, t) ==
    LET r == IF api_key # None THEN Resolved(get_by_api_key(api_key, us))
             ELSE IF token # NoToken THEN authenticate_bearer_token(token, us, t)
             ELSE Raised(403, "Not authenticated")
    IN  IF r.status # 200 THEN r
        ELSE IF r.user = NoDoc THEN Raised(404, "User not found")
        ELSE r

\* deps.get_current_user
get_current_user(api_key, token, us, t) ==
    LET r == IF api_key # None THEN Resolved(get_by_api_key(api_key, us))
             ELSE IF token # NoToken THEN authenticate_bearer_token(token, us, t)
             ELSE Raised(403, "Not authenticated")
    IN  IF r.status # 200 THEN r
        ELSE IF r.user = NoDoc
        THEN (IF api_key # None THEN Raised(403, "Invalid API key")
              ELSE Raised(404, "User not found"))
        ELSE r

\* deps.get_current_active_user, given get_current_user's outcome
get_current_active_user(current) ==
    IF current.status # 200 THEN current
    ELSE IF ~current.user.is_active THEN Raised(400, "Inactive user")
    ELSE current

\* get_current_active_superuser without its is_superuser test.
get_current_active_superuser_any(current) == current

\* deps.get_current_active_superuser, given get_current_active_user's outcome
get_current_active_superuser(current) ==
    IF current.status # 200 THEN current
    ELSE IF ~current.user.is_superuser
    THEN Raised(403, "The user doesn't have enough privileges")
    ELSE current

\* admin.deps.get_current_admin_user: AdminAuthError is answered by
\* admin_auth_exception_handler with a redirect to the login page.
AdminAuthError == Raised(302, "AdminAuthError")

get_current_admin_user(token, us, t) ==
    IF token = NoToken THEN AdminAuthError
    ELSE IF ~jwt_decode(token, t).ok THEN AdminAuthError
    ELSE LET user == User_get(jwt_decode(token, t).sub, us)
         IN  IF user = NoDoc THEN AdminAuthError
             ELSE IF ~user.is_active \/ ~user.is_superuser THEN AdminAuthError
             ELSE Resolved(user)

\* The admin session state Authenticated: the cookie resolves to an active
\* superuser whose totp_secret is set.
Authenticated(token, us, t) ==
    /\ get_current_admin_user(token, us, t).status = 200
    /\ get_current_admin_user(token, us, t).user.totp_secret # None

\* pyotp.TOTP(secret).verify(code): the code of that secret for the current
\* time step.
totp_now(secret, t) == <<secret, t>>
NoCode == <<"", 0>>
totp_verify(secret, code, t) == code = totp_now(secret, t)

-----------------------------------------------------------------------------
(* Requests *)

\* A worker's request under way: the operation, where the handler stands and
\* the instance it holds in memory.
Idle == [op |-> "none", pc |-> "idle", doc |-> NoDoc, cookie |-> NoToken]

\* The response of the request completed last: the operation, the key asked
\* for, the status, and (history) what the store held when it was served:
\* "expired" when the resolver queried an identifier whose document was
\* stored and past its expires_at, "collision" when shorten generated the
\* identifier of a stored document.
Response(op, key, status, note) ==
    [op |-> op, key |-> key, status |-> status, note |-> note]

\* A stored document with this identifier whose expires_at is in the past.
ExpiredPresent(ident, store, t) ==
    \E id \in Stored(store) :
        /\ store[id].ident = ident
        /\ store[id].expires_at # NoTime
        /\ store[id].expires_at < t

NoHist == [url |-> None, ident |-> None, visits |-> 0]

Free(w) == req[w].pc = "idle"

InitStore ==
    /\ urls = [id \in UrlIds |-> NoDoc]
    /\ nextId = 1
    /\ now = 0
    /\ req = [w \in Workers |-> Idle]
    /\ last = Response("none", None, 0, "")
    /\ started = 0
    /\ hist = [id \in UrlIds |-> NoHist]

\* The step just taken: the operation requested, the credentials sent and
\* what the operation's dependency answered (status 0: it declares none).
Summary(outcome) ==
    [status |-> outcome.status, detail |-> outcome.detail,
     user |-> IF outcome.user = NoDoc THEN None ELSE outcome.user.id]

Gate(op, api_key, token, sent, form, resolved, outcome) ==
    [op |-> op, api_key |-> api_key, token |-> token, cookie |-> sent,
     form |-> form, resolver |-> Summary(resolved),
     status |-> outcome.status, detail |-> outcome.detail,
     user |-> Summary(outcome).user]

\* History of an issuance: the time of the call and its expires_delta.
Mint(t, expires_delta) == [at |-> t, delta |-> expires_delta]
NoMint == Mint(NoTime, NoDelta)

NoForm == <<>>
NoGate == Raised(0, "")
NoAuth == Gate("none", None, NoToken, NoToken, NoForm, NoGate, NoGate)

InitAuth ==
    /\ users = InitUsers
    /\ cookie = NoToken
    /\ bearer = NoToken
    /\ hits = 0
    /\ minted = [bearer |-> NoMint, cookie |-> NoMint]
    /\ auth = NoAuth

Init == InitStore /\ InitAuth

\* POST /shorten (BasicUserViews.shorten_url -> ShortUrl.shorten).  A
\* DuplicateKeyError of the insert is not caught: the request fails (500).
Shorten(url, external_id, expires_at, user_id) ==
    /\ nextId <= MaxUrls
    /\ \E ident \in generate_ident :
        LET r == shorten(nextId, ident, url, external_id, expires_at, user_id,
                         urls, now)
        IN  /\ urls' = r.store
            /\ last' = Response("shorten", ident, IF r.ok THEN 201 ELSE 500,
                                IF \E j \in Stored(urls) : urls[j].ident = ident
                                THEN "collision" ELSE "")
            /\ hist' = IF r.ok
                       THEN [hist EXCEPT ![nextId] =
                               [url |-> encoded_string(url), ident |-> ident,
                                visits |-> 0]]
                       ELSE hist
    /\ nextId' = nextId + 1
    /\ UNCHANGED <<now, req, started>>

\* GET /{ident}: the resolver loads the live document and answers ...
RedirectLoad(w, ident) ==
    /\ Free(w)
    /\ started < MaxRequests
    /\ LET d == get_by_ident(ident, TRUE, urls, now)
       IN  /\ req' = [req EXCEPT ![w] =
                        IF d = NoDoc THEN Idle
                        ELSE [op |-> "redirect", pc |-> "loaded", doc |-> d,
                              cookie |-> NoToken]]
           /\ last' = Response("redirect", ident,
                               IF d = NoDoc THEN 404 ELSE 302,
                               IF ExpiredPresent(ident, urls, now)
                               THEN "expired" ELSE "")
           /\ started' = IF d = NoDoc THEN started ELSE started + 1
    /\ UNCHANGED <<urls, nextId, now, hist>>

\* ... and records the visit on the instance it loaded.
Visit(w) ==
    /\ req[w].op = "redirect" /\ req[w].pc = "loaded"
    /\ urls' = visit(req[w].doc, urls, now)
    /\ req' = [req EXCEPT ![w] = Idle]
    /\ hist' = [hist EXCEPT ![req[w].doc.id].visits = @ + 1]
    /\ UNCHANGED <<nextId, now, last, started>>

\* PATCH /ident/{ident} and PATCH /external/{external_id}: the handler
\* loads the document (by = "ident" or "external_id"), replaces the supplied
\* fields on the instance ...
UpdateLoad(w, by, key, payload) ==
    /\ Free(w)
    /\ started < MaxRequests
    /\ LET d == IF by = "ident" THEN get_by_ident(key, FALSE, urls, now)
                ELSE get_by_external_id(key, urls)
       IN  IF d = NoDoc
           THEN /\ last' = Response("update", key, 404, "")
                /\ UNCHANGED <<req, started>>
           ELSE /\ req' = [req EXCEPT ![w] =
                            [op |-> "update", pc |-> "saving",
                             doc |-> update_short_url_fields(d, payload, now),
                             cookie |-> NoToken]]
                /\ UNCHANGED last
                /\ started' = started + 1
    /\ UNCHANGED <<urls, nextId, now, hist>>

\* POST {ADMIN_PATH}/urls/{ident} (url_update): the same with the form.
AdminUpdateLoad(w, sent, ident, origin, external_id, expires_at) ==
    /\ Free(w)
    /\ started < MaxRequests
    /\ LET d == get_by_ident(ident, FALSE, urls, now)
       IN  IF d = NoDoc
           THEN /\ last' = Response("url_update", ident, 302, "")
                /\ UNCHANGED <<req, started>>
           ELSE /\ req' = [req EXCEPT ![w] =
                            [op |-> "url_update", pc |-> "saving",
                             doc |-> url_update_fields(d, origin, external_id,
                                                       expires_at),
                             cookie |-> sent]]
                /\ UNCHANGED last
                /\ started' = started + 1
    /\ UNCHANGED <<urls, nextId, now, hist>>

\* ... and saves the instance.  A DuplicateKeyError is not caught (500).
Save(w) ==
    /\ req[w].op \in {"update", "url_update"} /\ req[w].pc = "saving"
    /\ LET r == save(req[w].doc, urls)
       IN  /\ urls' = r.store
           /\ last' = Response(req[w].op, req[w].doc.ident,
                               IF ~r.ok THEN 500
                               ELSE IF req[w].op = "update" THEN 200 ELSE 302,
                               "")
    /\ req' = [req EXCEPT ![w] = Idle]
    /\ UNCHANGED <<nextId, now, started, hist>>

\* DELETE /ident/{ident}, DELETE /external/{external_id}: load ...
DeleteLoad(w, by, key) ==
    /\ Free(w)
    /\ started < MaxRequests
    /\ LET d == IF by = "ident" THEN get_by_ident(key, FALSE, urls, now)
                ELSE get_by_external_id(key, urls)
       IN  IF d = NoDoc
           THEN /\ last' = Response("delete", key, 404, "")
                /\ UNCHANGED <<req, started>>
           ELSE /\ req' = [req EXCEPT ![w] =
                            [op |-> "delete", pc |-> "deleting", doc |-> d,
                             cookie |-> NoToken]]
                /\ UNCHANGED last
                /\ started' = started + 1
    /\ UNCHANGED <<urls, nextId, now, hist>>

\* ... then short_url.delete().
Delete(w) ==
    /\ req[w].op = "delete" /\ req[w].pc = "deleting"
    /\ urls' = delete({req[w].doc.id}, urls)
    /\ last' = Response("delete", req[w].doc.ident, 204, "")
    /\ req' = [req EXCEPT ![w] = Idle]
    /\ UNCHANGED <<nextId, now, started, hist>>

Reap(id) ==
    /\ urls[id] # NoDoc
    /\ Reapable(urls[id], now)
    /\ urls' = [urls EXCEPT ![id] = NoDoc]
    /\ UNCHANGED <<nextId, now, req, last, started, hist>>

Tick ==
    /\ now < MaxTime
    /\ now' = now + 1
    /\ UNCHANGED <<urls, nextId, req, last, started, hist>>

-----------------------------------------------------------------------------
(* The API surface: every endpoint behind its dependency *)

\* The dependency raised: the handler does not run.
Rejected(op, g) ==
    /\ last' = Response(op, None, g.status, g.detail)
    /\ UNCHANGED <<urls, nextId, now, req, started, hist>>

\* A step that is not the start of a request.
Quiet == auth' = NoAuth /\ UNCHANGED <<users, cookie, bearer, minted, hits>>

BasicUser(api_key, token) ==
    get_current_active_user(get_current_user(api_key, token, users, now))

Superuser(api_key, token) ==
    get_current_active_superuser(BasicUser(api_key, token))

\* BasicUserViews.shorten_url: user = Depends(get_current_active_user)
ApiShorten(api_key, token, url, external_id, expires_at) ==
    LET g == BasicUser(api_key, token)
    IN  /\ auth' = Gate("shorten", api_key, token, NoToken, NoForm,
                        get_current_user(api_key, token, users, now), g)
        /\ IF g.status = 200
           THEN Shorten(url, external_id, expires_at, g.user.id)
           ELSE Rejected("shorten", g)
        /\ UNCHANGED <<users, cookie, bearer, minted, hits>>

\* SuperuserViews.get_urls, get_short_url, get_short_url_by_external_id:
\* superuser = Depends(get_current_active_superuser); they read only.
ApiRead(api_key, token, by, key) ==
    LET g == Superuser(api_key, token)
        d == IF by = "ident" THEN get_by_ident(key, FALSE, urls, now)
             ELSE get_by_external_id(key, urls)
    IN  /\ auth' = Gate("read", api_key, token, NoToken, NoForm,
                        get_current_user(api_key, token, users, now), g)
        /\ IF g.status = 200
           THEN /\ last' = Response("read", key,
                                    IF by # "list" /\ d = NoDoc THEN 404 ELSE 200,
                                    "")
                /\ UNCHANGED <<urls, nextId, now, req, started, hist>>
           ELSE Rejected("read", g)
        /\ UNCHANGED <<users, cookie, bearer, minted, hits>>

\* SuperuserViews.update_short_url / update_short_url_by_external_id
ApiUpdate(w, api_key, token, by, key, payload) ==
    LET g == Superuser(api_key, token)
    IN  /\ auth' = Gate("update", api_key, token, NoToken, NoForm,
                        get_current_user(api_key, token, users, now), g)
        /\ IF g.status = 200
           THEN UpdateLoad(w, by, key, payload)
           ELSE Rejected("update", g)
        /\ UNCHANGED <<users, cookie, bearer, minted, hits>>

\* SuperuserViews.delete_short_url / delete_short_url_by_external_id
ApiDelete(w, api_key, token, by, key) ==
    LET g == Superuser(api_key, token)
    IN  /\ auth' = Gate("delete", api_key, token, NoToken, NoForm,
                        get_current_user(api_key, token, users, now), g)
        /\ IF g.status = 200
           THEN DeleteLoad(w, by, key)
           ELSE Rejected("delete", g)
        /\ UNCHANGED <<users, cookie, bearer, minted, hits>>

\* POST /auth/access-token: a principal's username and password buy a bearer
\* token that expires after ACCESS_TOKEN_EXPIRE_MINUTES minutes.
AccessToken(username, password) ==
    LET user == authenticate(username, password, users)
    IN  /\ user # NoDoc
        /\ bearer' = create_access_token(user.id, ACCESS_TOKEN_EXPIRE_MINUTES, now)
        /\ minted' = [minted EXCEPT
                         !.bearer = Mint(now, ACCESS_TOKEN_EXPIRE_MINUTES)]
        /\ auth' = Gate("access_token", None, NoToken, NoToken,
                        <<username, password>>, NoGate, Resolved(user))
        /\ last' = Response("access_token", username, 200, "")
        /\ UNCHANGED <<urls, nextId, now, req, started, hist, users, cookie, hits>>

\* A principal is deactivated (out of band).
Deactivate(id) ==
    /\ users[id] # NoDoc /\ users[id].is_active
    /\ users' = [users EXCEPT ![id].is_active = FALSE]
    /\ auth' = NoAuth
    /\ UNCHANGED <<urls, nextId, now, req, last, started, hist, cookie, bearer,
                   minted, hits>>

\* A principal loses is_superuser (out of band).
Demote(id) ==
    /\ users[id] # NoDoc /\ users[id].is_superuser
    /\ users' = [users EXCEPT ![id].is_superuser = FALSE]
    /\ auth' = NoAuth
    /\ UNCHANGED <<urls, nextId, now, req, last, started, hist, cookie, bearer,
                   minted, hits>>

\* A day and a minute pass; the limiter's window is over.
Advance ==
    /\ now + ACCESS_TOKEN_EXPIRE_MINUTES + 1
          <= MaxDays * (ACCESS_TOKEN_EXPIRE_MINUTES + 1)
    /\ now' = now + ACCESS_TOKEN_EXPIRE_MINUTES + 1
    /\ hits' = 0
    /\ auth' = NoAuth
    /\ UNCHANGED <<urls, nextId, req, last, started, hist, users, cookie, bearer,
                   minted>>

\* security.create_access_token(subject, timedelta(minutes=expires_delta)):
\* the API client is handed a token of that lifetime.
IssueToken(subject, expires_delta) ==
    /\ bearer' = create_access_token(subject, expires_delta, now)
    /\ minted' = [minted EXCEPT !.bearer = Mint(now, expires_delta)]
    /\ auth' = NoAuth
    /\ UNCHANGED <<urls, nextId, now, req, last, started, hist, users, cookie,
                   hits>>

\* m minutes pass (m >= 1): the limiter's window is over.
Elapse(m) ==
    /\ now + m <= MaxTime * MinutesPerHour
    /\ now' = now + m
    /\ hits' = 0
    /\ auth' = NoAuth
    /\ UNCHANGED <<urls, nextId, req, last, started, hist, users, cookie, bearer,
                   minted>>

-----------------------------------------------------------------------------
(* The admin surface *)

LOGIN_LIMIT == 5      \* @limiter.limit("5/minute")

\* core.rate_limit.limiter, a fixed window per client identity: each attempt
\* is counted, and once the window holds LOGIN_LIMIT attempts the next ones
\* are answered with RateLimitExceeded before the handler runs.
limiter_exceeded(h) == h >= LOGIN_LIMIT
limiter_hit(h) == IF limiter_exceeded(h) THEN h ELSE h + 1

\* login_action that never asks for the TOTP code.
login_action_password_only(username, password, totp_code) ==
    LET user == authenticate(username, password, users)
        form == <<username, password, totp_code>>
        ok == user # NoDoc /\ user.is_active /\ user.is_superuser
        limited == limiter_exceeded(hits)
    IN  /\ hits' = limiter_hit(hits)
        /\ cookie' = IF ok /\ ~limited
                     THEN create_access_token(user.id, NoDelta, now) ELSE cookie
        /\ minted' = IF ok /\ ~limited
                     THEN [minted EXCEPT !.cookie = Mint(now, NoDelta)]
                     ELSE minted
        /\ auth' = Gate("login", None, NoToken, NoToken, form, NoGate,
                        IF limited THEN Raised(429, "Rate limit exceeded")
                        ELSE IF ok THEN Resolved(user)
                        ELSE Raised(401, "denied"))
        /\ last' = Response("login", username,
                            IF limited THEN 429 ELSE IF ok THEN 302 ELSE 401, "")
        /\ UNCHANGED <<urls, nextId, now, req, started, hist, users, bearer>>

\* login_action without the limiter.
login_action_unlimited(username, password, totp_code) ==
    LET user == authenticate(username, password, users)
        form == <<username, password, totp_code>>
        ok == /\ user # NoDoc
              /\ user.is_active /\ user.is_superuser
              /\ user.totp_secret # None =>
                    totp_verify(user.totp_secret, totp_code, now)
    IN  /\ hits' = limiter_hit(hits)
        /\ cookie' = IF ok THEN create_access_token(user.id, NoDelta, now)
                     ELSE cookie
        /\ minted' = IF ok THEN [minted EXCEPT !.cookie = Mint(now, NoDelta)]
                     ELSE minted
        /\ auth' = Gate("login", None, NoToken, NoToken, form, NoGate,
                        IF ok THEN Resolved(user) ELSE Raised(401, "denied"))
        /\ last' = Response("login", username, IF ok THEN 302 ELSE 401, "")
        /\ UNCHANGED <<urls, nextId, now, req, started, hist, users, bearer>>

\* login_action behind its limiter: the limiter counts the attempt first and
\* answers 429 itself once the window's budget is used up.
login_action(username, password, totp_code) ==
    LET user == authenticate(username, password, users)
        form == <<username, password, totp_code>>
        deny(status, msg) ==
            /\ cookie' = cookie
            /\ minted' = minted
            /\ auth' = Gate("login", None, NoToken, NoToken, form, NoGate,
                            Raised(status, msg))
            /\ last' = Response("login", username, status, msg)
    IN  /\ hits' = limiter_hit(hits)
        /\ IF limiter_exceeded(hits)
           THEN deny(429, "Rate limit exceeded")
           ELSE IF user = NoDoc
           THEN deny(401, "Invalid credentials or insufficient permissions")
           ELSE IF ~user.is_active \/ ~user.is_superuser
           THEN deny(401, "Invalid credentials or insufficient permissions")
           ELSE IF user.totp_secret # None /\ totp_code = NoCode
           THEN deny(401, "TOTP code required")
           ELSE IF user.totp_secret # None
                   /\ ~totp_verify(user.totp_secret, totp_code, now)
           THEN deny(401, "Invalid TOTP code")
           ELSE /\ cookie' = create_access_token(user.id, NoDelta, now)
                /\ minted' = [minted EXCEPT !.cookie = Mint(now, NoDelta)]
                /\ auth' = Gate("login", None, NoToken, NoToken, form, NoGate,
                                Resolved(user))
                /\ last' = Response("login", username, 302, "")
        /\ UNCHANGED <<urls, nextId, now, req, started, hist, users, bearer>>

\* logout that leaves the cookie with the client.
logout_keeps_cookie ==
    /\ auth' = Gate("logout", None, NoToken, cookie, NoForm, NoGate, NoGate)
    /\ last' = Response("logout", None, 302, "")
    /\ UNCHANGED <<urls, nextId, now, req, started, hist, users, cookie, bearer,
                   minted, hits>>

\* logout: response.delete_cookie("access_token"), whatever the request holds.
logout ==
    /\ cookie' = NoToken
    /\ minted' = [minted EXCEPT !.cookie = NoMint]
    /\ auth' = Gate("logout", None, NoToken, cookie, NoForm, NoGate, NoGate)
    /\ last' = Response("logout", None, 302, "")
    /\ UNCHANGED <<urls, nextId, now, req, started, hist, users, bearer, hits>>

AdminViews == {"dashboard", "list_users", "list_urls", "url_detail"}

\* The views without the redirect to setup-totp.
AdminView_unenrolled(view, sent) ==
    LET g == get_current_admin_user(sent, users, now)
    IN  /\ auth' = Gate(view, None, NoToken, sent, NoForm, NoGate, g)
        /\ last' = IF g.status # 200
                   THEN Response(view, None, 302, "login")
                   ELSE Response(view, None, 200, "")
        /\ UNCHANGED <<urls, nextId, now, req, started, hist, users, cookie,
                       bearer, minted, hits>>

\* dashboard, list_users, list_urls: user: CurrentAdminUser, then the
\* redirect to setup-totp while the principal has no totp_secret.
AdminView(view, sent) ==
    LET g == get_current_admin_user(sent, users, now)
    IN  /\ auth' = Gate(view, None, NoToken, sent, NoForm, NoGate, g)
        /\ last' = IF g.status # 200
                   THEN Response(view, None, 302, "login")
                   ELSE IF g.user.totp_secret = None
                   THEN Response(view, None, 302, "setup-totp")
                   ELSE Response(view, None, 200, "")
        /\ UNCHANGED <<urls, nextId, now, req, started, hist, users, cookie,
                       bearer, minted, hits>>

\* url_detail(ident): the same, then the link is looked up and a missing one
\* redirects to the list.
url_detail(sent, ident) ==
    LET g == get_current_admin_user(sent, users, now)
        short_url == get_by_ident(ident, FALSE, urls, now)
    IN  /\ auth' = Gate("url_detail", None, NoToken, sent, NoForm, NoGate, g)
        /\ last' = IF g.status # 200
                   THEN Response("url_detail", None, 302, "login")
                   ELSE IF g.user.totp_secret = None
                   THEN Response("url_detail", None, 302, "setup-totp")
                   ELSE IF short_url = NoDoc
                   THEN Response("url_detail", ident, 302, "urls")
                   ELSE Response("url_detail", ident, 200, "")
        /\ UNCHANGED <<urls, nextId, now, req, started, hist, users, cookie,
                       bearer, minted, hits>>

\* setup_totp_page: user: CurrentAdminUser; an enrolled principal is sent to
\* the dashboard, another is shown a fresh secret (nothing is stored).
setup_totp_page(sent) ==
    LET g == get_current_admin_user(sent, users, now)
    IN  /\ auth' = Gate("setup_totp_page", None, NoToken, sent, NoForm, NoGate, g)
        /\ last' = IF g.status # 200
                   THEN Response("setup_totp_page", None, 302, "login")
                   ELSE IF g.user.totp_secret # None
                   THEN Response("setup_totp_page", None, 302, "dashboard")
                   ELSE Response("setup_totp_page", None, 200, "")
        /\ UNCHANGED <<urls, nextId, now, req, started, hist, users, cookie,
                       bearer, minted, hits>>

\* setup_totp_action that stores the secret without verifying the code.
setup_totp_action_unverified(sent, secret, code) ==
    LET g == get_current_admin_user(sent, users, now)
    IN  /\ auth' = Gate("setup_totp_action", None, NoToken, sent,
                        <<secret, code>>, NoGate, g)
        /\ IF g.status # 200
           THEN /\ last' = Response("setup_totp_action", None, 302, "login")
                /\ users' = users
           ELSE /\ last' = Response("setup_totp_action", None, 302, "dashboard")
                /\ users' = [users EXCEPT ![g.user.id] =
                                [g.user EXCEPT !.totp_secret = secret]]
        /\ UNCHANGED <<urls, nextId, now, req, started, hist, cookie, bearer,
                       minted, hits>>

\* setup_totp_action(secret, code): user: CurrentAdminUser; the code must
\* verify against the submitted secret, then user.totp_secret = secret and
\* user.save().
setup_totp_action(sent, secret, code) ==
    LET g == get_current_admin_user(sent, users, now)
    IN  /\ auth' = Gate("setup_totp_action", None, NoToken, sent,
                        <<secret, code>>, NoGate, g)
        /\ IF g.status # 200
           THEN /\ last' = Response("setup_totp_action", None, 302, "login")
                /\ users' = users
           ELSE IF ~totp_verify(secret, code, now)
           THEN /\ last' = Response("setup_totp_action", None, 400,
                                    "Invalid code")
                /\ users' = users
           ELSE /\ last' = Response("setup_totp_action", None, 302, "dashboard")
                /\ users' = [users EXCEPT ![g.user.id] =
                                [g.user EXCEPT !.totp_secret = secret]]
        /\ UNCHANGED <<urls, nextId, now, req, started, hist, cookie, bearer,
                       minted, hits>>

\* The text of an id in a form, and PydanticObjectId(text).
ObjectIdText(n) == <<"ObjectId", n>>
NotAnObjectId == <<"zzz", 0>>
PydanticObjectId(text) == text[1] = "ObjectId"

\* delete_user(user_id): the route declares no dependency.
delete_user(sent, user_id) ==
    /\ users' = IF User_get(user_id, users) # NoDoc
                THEN delete({user_id}, users) ELSE users
    /\ auth' = Gate("delete_user", None, NoToken, sent, NoForm, NoGate,
                    NoGate)
    /\ last' = Response("delete_user", user_id, 302, "")
    /\ UNCHANGED <<urls, nextId, now, req, started, hist, cookie, bearer,
                   minted, hits>>

\* delete_url(url_id): the route declares no dependency.
delete_url(sent, url_id) ==
    /\ urls' = IF urls[url_id] # NoDoc THEN delete({url_id}, urls) ELSE urls
    /\ auth' = Gate("delete_url", None, NoToken, sent, NoForm, NoGate,
                    NoGate)
    /\ last' = Response("delete_url", None, 302, "")
    /\ UNCHANGED <<nextId, now, req, started, hist, users, cookie, bearer,
                   minted, hits>>

\* batch_delete_urls(url_ids): the texts that are ObjectIds are deleted in one
\* command; the route declares no dependency.
batch_delete_urls(sent, url_ids) ==
    LET ids == {text[2] : text \in {x \in url_ids : PydanticObjectId(x)}}
    IN  /\ urls' = IF ids # {} THEN delete(ids, urls) ELSE urls
        /\ auth' = Gate("batch_delete_urls", None, NoToken, sent, NoForm, NoGate,
                    NoGate)
        /\ last' = Response("batch_delete_urls", None, 302, "")
        /\ UNCHANGED <<nextId, now, req, started, hist, users, cookie, bearer, minted,
                       hits>>

\* url_update(ident, origin, external_id, expires_at): the route declares no
\* dependency.
url_update(w, sent, ident, origin, external_id, expires_at) ==
    /\ AdminUpdateLoad(w, sent, ident, origin, external_id, expires_at)
    /\ auth' = Gate("url_update", None, NoToken, sent, NoForm, NoGate,
                    NoGate)
    /\ UNCHANGED <<users, cookie, bearer, minted, hits>>

-----------------------------------------------------------------------------
(* Resolution and visits of links *)

NextVisit ==
    \/ \E url \in AnyUrls, e \in {NoTime, 1} : Shorten(url, None, e, None) /\ UNCHANGED authVars
    \/ \E w \in Workers, i \in generate_ident : RedirectLoad(w, i) /\ UNCHANGED authVars
    \/ \E w \in Workers : Visit(w) /\ UNCHANGED authVars
    \/ \E id \in UrlIds : Reap(id) /\ UNCHANGED authVars
    \/ Tick /\ UNCHANGED authVars

SpecVisit == Init /\ [][NextVisit]_vars

\* C2: views is 0 right after shorten and, after N completed visits of a
\* link, exactly N, whatever the interleaving of the visits.
C2_ViewsCountVisits ==
    \A id \in Stored(urls) : urls[id].views = hist[id].visits

\* C3: a link that shorten stored, without expires_at or with expires_at in
\* the future, is resolved by get_by_ident with the not-expired predicate
\* to the record whose origin is the URL it was shortened from.
C3_ShortenThenResolve ==
    \A id \in Stored(urls) :
        (urls[id].expires_at = NoTime \/ urls[id].expires_at > now) =>
            LET d == get_by_ident(hist[id].ident, TRUE, urls, now)
            IN  d # NoDoc /\ d.origin = hist[id].url

\* C4: a resolution made while the record of the identifier is stored and
\* its expires_at is in the past finds no record (404), reaped or not.
C4_ExpiredIsNotFound ==
    /\ last.op = "redirect" /\ last.note = "expired" => last.status = 404
    /\ \A id \in Stored(urls) :
          urls[id].expires_at # NoTime /\ urls[id].expires_at < now =>
              get_by_ident(urls[id].ident, TRUE, urls, now) = NoDoc

\* A resolver answered 404 for a record that is still stored, past expiry.
C4_Witness ==
    /\ last.op = "redirect" /\ last.note = "expired" /\ last.status = 404
    /\ ExpiredPresent(last.key, urls, now)

-----------------------------------------------------------------------------
(* The link store under concurrent creates, visits, updates and deletes *)

StoreExternalIds == {"promo-1"}

StorePayloads ==
    {Payload({"external_id"}, NoUrl, e, NoTime) : e \in StoreExternalIds \cup {None}}

HomeUrl == [scheme |-> "https", host |-> "example.com", path |-> "/a"]

NextStore ==
    \/ \E e \in StoreExternalIds \cup {None} : Shorten(HomeUrl, e, 1, None) /\ UNCHANGED authVars
    \/ \E w \in Workers, i \in generate_ident : RedirectLoad(w, i) /\ UNCHANGED authVars
    \/ \E w \in Workers : Visit(w) /\ UNCHANGED authVars
    \/ \E w \in Workers, i \in generate_ident, p \in StorePayloads :
          UpdateLoad(w, "ident", i, p) /\ UNCHANGED authVars
    \/ \E w \in Workers, e \in StoreExternalIds, p \in StorePayloads :
          UpdateLoad(w, "external_id", e, p) /\ UNCHANGED authVars
    \/ \E w \in Workers, i \in generate_ident, e \in StoreExternalIds \cup {""} :
          AdminUpdateLoad(w, NoToken, i, "https://example.net/c", e, FormEmpty) /\ UNCHANGED authVars
    \/ \E w \in Workers : Save(w) /\ UNCHANGED authVars
    \/ \E w \in Workers, i \in generate_ident : DeleteLoad(w, "ident", i) /\ UNCHANGED authVars
    \/ \E w \in Workers, e \in StoreExternalIds : DeleteLoad(w, "external_id", e) /\ UNCHANGED authVars
    \/ \E w \in Workers : Delete(w) /\ UNCHANGED authVars

SpecStore == Init /\ [][NextStore]_vars

\* C5: a shorten whose generated identifier is that of a stored record
\* regenerates and retries: it is not answered with a failure (the retry
\* bound, which is at least one retry, is not exhausted by one collision).
C5_CollisionIsRetried ==
    last.op = "shorten" /\ last.note = "collision" => last.status = 201

\* C6: no two stored records share an identifier, no two share a non-null
\* external_id, and a stored record has the identifier it was created with.
C6_IdentifiersUniqueAndImmutable ==
    /\ \A a \in Stored(urls) : \A b \in Stored(urls) \ {a} :
          /\ urls[a].ident # urls[b].ident
          /\ urls[a].external_id # None =>
                 urls[a].external_id # urls[b].external_id
    /\ \A id \in Stored(urls) :
          urls[id].id = id /\ urls[id].ident = hist[id].ident

\* Two records are stored and the save of an update was rejected by an index.
C6_Witness ==
    /\ Cardinality(Stored(urls)) = 2
    /\ last.op \in {"update", "url_update"} /\ last.status = 500

\* Some stored record carries this external_id.
ExternalIdTaken(external_id, store) ==
    \E j \in Stored(store) : store[j].external_id = external_id

\* Some stored record carries this identifier.
IdentTaken(ident, store) ==
    \E j \in Stored(store) : store[j].ident = ident

C19_TwoWithoutExternalId ==
    /\ Cardinality(Stored(urls)) = 2
    /\ \A j \in Stored(urls) : urls[j].external_id = None

-----------------------------------------------------------------------------
(* The resolver under every combination of credentials *)

ApiOps == {"shorten", "read", "update", "delete"}
SuperuserOps == {"read", "update", "delete"}

SentKeys == {None, "key-admin", "key-basic", "key-unknown"}
SentTokens == {NoToken, bearer, Garbage, Forged("admin", now)}

\* Requests to GET /urls with every combination of credentials, while
\* tokens are issued and expire and principals are deactivated and deleted.
NextResolver ==
    \/ \E k \in SentKeys, tk \in SentTokens : ApiRead(k, tk, "list", None)
    \/ \E u \in {"admin", "basic"} : AccessToken(u, "pw-" \o u)
    \/ \E u \in {"admin", "basic"} : Deactivate(u)
    \/ \E u \in {"admin", "basic"} : delete_user(NoToken, u)
    \/ Advance

SpecResolver == Init /\ [][NextResolver]_vars

\* The principal an API key names in the user store, by its id.
KeyHolder(api_key) == Summary(Resolved(get_by_api_key(api_key, users))).user

\* C7: when a request supplies both an API key and a bearer token,
\* get_current_user resolves the principal from the API key alone: a matching
\* key yields that key's principal whatever the token is, and a key matching
\* no principal fails with "Invalid API key" even when the token is valid.
C7_ApiKeyTakesPrecedence ==
    (auth.op \in ApiOps /\ auth.api_key # None /\ auth.token # NoToken) =>
        IF KeyHolder(auth.api_key) = None
        THEN auth.resolver = [status |-> 403, detail |-> "Invalid API key",
                              user |-> None]
        ELSE auth.resolver = [status |-> 200, detail |-> "",
                              user |-> KeyHolder(auth.api_key)]

\* An unmatched API key failed although the bearer token sent with it was
\* valid and named a stored principal.
C7_Witness ==
    /\ auth.op \in ApiOps
    /\ auth.api_key = "key-unknown"
    /\ auth.token # NoToken
    /\ jwt_decode(auth.token, now).ok
    /\ User_get(jwt_decode(auth.token, now).sub, users) # NoDoc
    /\ auth.resolver.detail = "Invalid API key"

\* C8: get_current_user fails in exactly four ways and otherwise returns the
\* resolved principal: nothing supplied, "Not authenticated"; an API key
\* matching no principal, "Invalid API key"; a bearer token that validates
\* but whose subject matches no principal, "User not found"; a bearer token
\* that does not validate, "Could not validate credentials".
C8_ResolverOutcomes ==
    auth.op \in ApiOps =>
        LET k == auth.api_key
            tk == auth.token
            r == auth.resolver
            fails(detail) == r.detail = detail /\ r.status # 200 /\ r.user = None
        IN  CASE k = None /\ tk = NoToken -> fails("Not authenticated")
              [] k # None /\ KeyHolder(k) = None -> fails("Invalid API key")
              [] k # None /\ KeyHolder(k) # None ->
                    r = [status |-> 200, detail |-> "", user |-> KeyHolder(k)]
              [] k = None /\ tk # NoToken /\ ~jwt_decode(tk, now).ok ->
                    fails("Could not validate credentials")
              [] k = None /\ tk # NoToken /\ jwt_decode(tk, now).ok
                   /\ User_get(jwt_decode(tk, now).sub, users) = NoDoc ->
                    fails("User not found")
              [] OTHER ->
                    r = [status |-> 200, detail |-> "",
                         user |-> jwt_decode(tk, now).sub]

\* A bearer token that validates named a principal that is no longer stored.
C8_Witness ==
    /\ auth.op \in ApiOps
    /\ auth.api_key = None
    /\ auth.token # NoToken
    /\ jwt_decode(auth.token, now).ok
    /\ auth.resolver.detail = "User not found"

-----------------------------------------------------------------------------
(* The API surface for a superuser and a regular principal *)

ApiWorker == "w1"
ApiKeysSent == {None, "key-admin", "key-basic"}
ApiTokensSent == {NoToken, bearer}

NextApi ==
    \/ \E k \in ApiKeysSent, tk \in ApiTokensSent :
         ApiShorten(k, tk, HomeUrl, None, NoTime)
    \/ \E k \in ApiKeysSent, tk \in ApiTokensSent :
         \/ ApiRead(k, tk, "ident", "abc-def")
         \/ ApiRead(k, tk, "list", None)
    \/ \E k \in ApiKeysSent, tk \in ApiTokensSent :
         ApiUpdate(ApiWorker, k, tk, "ident", "abc-def",
                   Payload({"external_id"}, NoUrl, "promo-1", NoTime))
    \/ \E k \in ApiKeysSent, tk \in ApiTokensSent :
         ApiDelete(ApiWorker, k, tk, "external_id", "promo-1")
    \/ Save(ApiWorker) /\ Quiet
    \/ Delete(ApiWorker) /\ Quiet
    \/ AccessToken("basic", "pw-basic")

SpecApi == Init /\ [][NextApi]_vars

\* C10: on the API surface an active principal that is not a superuser can
\* create a link, recorded with that principal as owner, but every listing,
\* read, update and delete is denied with Forbidden and leaves the store
\* unchanged; only an active superuser reaches those operations.
C10_SuperuserOnly ==
    [][LET u == auth'.resolver.user
           regular == /\ u # None
                      /\ users[u].is_active
                      /\ ~users[u].is_superuser
       IN  /\ (auth'.op = "shorten" /\ regular) =>
                 /\ auth'.status = 200
                 /\ last'.status = 201 =>
                      /\ urls[nextId] = NoDoc
                      /\ urls'[nextId] # NoDoc
                      /\ urls'[nextId].user_id = u
           /\ (auth'.op \in SuperuserOps /\ regular) =>
                 /\ auth'.status = 403
                 /\ auth'.detail = "The user doesn't have enough privileges"
                 /\ last'.status = 403
                 /\ urls' = urls
                 /\ req' = req
           /\ (auth'.op \in SuperuserOps /\ auth'.status = 200) =>
                 /\ u # None
                 /\ users[u].is_active
                 /\ users[u].is_superuser
           /\ (auth'.op \in SuperuserOps /\ auth'.status # 200) =>
                 (urls' = urls /\ req' = req)]_vars

\* A regular principal owns a stored link and was just denied a superuser
\* operation on the store that holds it.
C10_Witness ==
    /\ auth.op \in SuperuserOps
    /\ auth.resolver.user = "basic"
    /\ auth.status = 403
    /\ \E id \in Stored(urls) : urls[id].user_id = "basic"

-----------------------------------------------------------------------------
(* The admin surface, with principals deactivated while they hold credentials *)

AdminWorker == "w1"
AdminMutations == {"delete_user", "delete_url", "batch_delete_urls", "url_update"}
SentCookies == {NoToken, cookie}
EnrolledCode == totp_now("JBSWY3DP", now)

Logins ==
    {<<"admin", "pw-admin", EnrolledCode>>, <<"admin", "pw-admin", NoCode>>,
     <<"admin", "pw-fresh", EnrolledCode>>, <<"fresh", "pw-fresh", NoCode>>}

NextAdmin ==
    \/ ApiShorten("key-admin", NoToken, HomeUrl, None, NoTime)
    \/ Deactivate("admin")
    \/ \E form \in Logins : login_action(form[1], form[2], form[3])
    \/ logout
    \/ \E sent \in SentCookies : AdminView("dashboard", sent)
    \/ \E sent \in SentCookies : delete_user(sent, "basic")
    \/ \E sent \in SentCookies, id \in UrlIds : delete_url(sent, id)
    \/ \E sent \in SentCookies, id \in UrlIds :
         batch_delete_urls(sent, {ObjectIdText(id), NotAnObjectId})
    \/ \E sent \in SentCookies :
         url_update(AdminWorker, sent, "abc-def", "https://example.net/c", None,
                    FormEmpty)
    \/ Save(AdminWorker) /\ Quiet

SpecAdmin == Init /\ [][NextAdmin]_vars

\* C1: delete_user, delete_url, batch_delete_urls and url_update change a
\* link or user record only when the request carries a session cookie that
\* resolves to an active superuser whose totp_secret is set; a request with
\* no cookie, an invalid cookie or the cookie of a principal that has not
\* enrolled changes no record.
C1_AdminMutationsNeedSession ==
    [][/\ (auth'.op \in AdminMutations /\ (urls' # urls \/ users' # users)) =>
             Authenticated(auth'.cookie, users, now)
       /\ \A w \in Workers :
             (/\ req[w].op = "url_update" /\ req[w].pc = "saving"
              /\ req'[w] = Idle
              /\ urls' # urls) =>
                Authenticated(req[w].cookie, users, now)]_vars

\* The token is a valid session cookie of a stored principal that is not
\* active.
CookieOfInactive(tk) ==
    /\ tk # NoToken
    /\ jwt_decode(tk, now).ok
    /\ User_get(jwt_decode(tk, now).sub, users) # NoDoc
    /\ ~User_get(jwt_decode(tk, now).sub, users).is_active

\* C9: a principal with is_active = false is never allowed a protected
\* operation under any scheme: with an API key or bearer token
\* get_current_user returns it without error and get_current_active_user
\* rejects the request; with its admin session cookie the admin operations
\* are refused; and admin login issues it no cookie even with a correct
\* password and TOTP code.
C9_InactiveNeverAllowed ==
    [][LET u == auth'.resolver.user
           named == authenticate(auth'.form[1], auth'.form[2], users)
       IN  /\ (auth'.op \in ApiOps /\ u # None /\ ~users[u].is_active) =>
                 /\ auth'.resolver.status = 200
                 /\ auth'.status = 400
                 /\ auth'.detail = "Inactive user"
                 /\ urls' = urls
                 /\ req' = req
           /\ (auth'.op \in AdminViews /\ CookieOfInactive(auth'.cookie)) =>
                 /\ auth'.status = 302
                 /\ last' = Response(auth'.op, None, 302, "login")
           /\ (auth'.op \in AdminMutations /\ CookieOfInactive(auth'.cookie)) =>
                 /\ urls' = urls
                 /\ users' = users
                 /\ req' = req
           /\ (auth'.op = "login" /\ named # NoDoc /\ ~named.is_active) =>
                 /\ auth'.status # 200
                 /\ cookie' = cookie]_vars

-----------------------------------------------------------------------------
(* Lifetimes of bearer tokens *)

Deltas == {0, 1, MinutesPerHour}

NextToken ==
    \/ \E d \in Deltas : IssueToken("basic", d)
    \/ \E m \in {1, MinutesPerHour - 1} : Elapse(m)
    \/ ApiRead(None, bearer, "list", None)

SpecToken == Init /\ [][NextToken]_vars

\* C11: a token issued by create_access_token at time T with an explicit
\* expiry of d validates at every time before T + d and fails validation at
\* every time after T + d.
C11_ExplicitExpiry ==
    (/\ auth.op = "read"
     /\ auth.token # NoToken
     /\ auth.token = bearer
     /\ minted.bearer.delta # NoDelta) =>
        LET T == minted.bearer.at
            d == minted.bearer.delta
        IN  /\ now < T + d => auth.resolver.status = 200
            /\ now > T + d =>
                  /\ auth.resolver.status # 200
                  /\ auth.resolver.detail = "Could not validate credentials"

\* The same for the lifetimes that are not zero.
PositiveExpiry ==
    minted.bearer.delta # 0 => C11_ExplicitExpiry

-----------------------------------------------------------------------------
(* Admin sessions over time *)

\* What a client can put in the cookie or the Authorization header: nothing,
\* the tokens it was issued, a text that is no token, a token it signed itself.
SessionTokens == {NoToken, cookie, bearer, Garbage, Forged("admin", now)}

NextSession ==
    \/ \E form \in Logins : login_action(form[1], form[2], form[3])
    \/ logout
    \/ \E sent \in SessionTokens : AdminView("dashboard", sent)
    \/ \E tk \in SessionTokens : ApiRead(None, tk, "list", None)
    \/ AccessToken("admin", "pw-admin")
    \/ Advance

SpecSession == Init /\ [][NextSession]_vars

\* C12: a token issued by create_access_token without expires_delta, as
\* admin login does, expires ACCESS_TOKEN_EXPIRE_MINUTES minutes after it was
\* issued: it fails validation at every later time.
C12_DefaultExpiry ==
    (/\ auth.op \in AdminViews
     /\ auth.cookie # NoToken
     /\ auth.cookie = cookie
     /\ minted.cookie.delta = NoDelta
     /\ now > minted.cookie.at + ACCESS_TOKEN_EXPIRE_MINUTES) =>
        auth.status # 200

\* The token does not validate: it is no JWT, it is signed with another key
\* (or with none), or it is past its exp.
Invalid(tk) == tk # NoToken /\ (tk.key # SECRET_KEY \/ tk.exp < now)

GatedAdminOps == AdminViews \cup {"setup_totp_page", "setup_totp_action"}

\* C13: token validation fails closed with one outcome: every token that is
\* malformed, unsigned, signed with another key or expired gets the same
\* response of its scheme (bearer: "Could not validate credentials"; admin
\* cookie: the redirect to login), and none resolves to a principal.
C13_FailsClosed ==
    /\ (auth.op \in ApiOps /\ auth.api_key = None /\ Invalid(auth.token)) =>
          /\ auth.resolver = [status |-> 403,
                              detail |-> "Could not validate credentials",
                              user |-> None]
          /\ auth.status = 403
          /\ auth.detail = "Could not validate credentials"
          /\ auth.user = None
          /\ last = Response(auth.op, None, 403, "Could not validate credentials")
    /\ (auth.op \in GatedAdminOps /\ Invalid(auth.cookie)) =>
          /\ auth.status = 302
          /\ auth.detail = "AdminAuthError"
          /\ auth.user = None
          /\ last = Response(auth.op, None, 302, "login")

\* A token of the server's own making, past its exp, was refused as a bearer
\* token with the outcome of a forged one.
C13_Witness ==
    /\ auth.op \in ApiOps
    /\ auth.api_key = None
    /\ auth.token # NoToken
    /\ auth.token.key = SECRET_KEY
    /\ auth.token.exp < now
    /\ auth.detail = "Could not validate credentials"

\* C17: logout succeeds from every admin session state without precondition
\* and leaves the client without a session cookie; every later request of the
\* client to a view behind get_current_admin_user is redirected to login
\* until a new successful login_action.
C17_LogoutEndsSession ==
    [][/\ ENABLED logout
       /\ auth'.op = "logout" =>
             (cookie' = NoToken /\ last' = Response("logout", None, 302, ""))
       /\ (cookie = NoToken /\ cookie' # NoToken) =>
             (auth'.op = "login" /\ auth'.status = 200)
       /\ (cookie = NoToken /\ auth'.op \in GatedAdminOps
              /\ auth'.cookie = cookie) =>
             (auth'.status = 302 /\ last' = Response(auth'.op, None, 302, "login"))
      ]_vars

\* The client logged out of an Authenticated session.
C17_Witness ==
    /\ auth.op = "logout"
    /\ Authenticated(auth.cookie, users, now)
    /\ cookie = NoToken

-----------------------------------------------------------------------------
(* Login and TOTP enrollment *)

NewSecret == "KRSXG5DF"

EnrollLogins ==
    {<<"admin", "pw-admin", EnrolledCode>>, <<"admin", "pw-admin", NoCode>>,
     <<"fresh", "pw-fresh", NoCode>>, <<"fresh", "pw-admin", NoCode>>,
     <<"fresh", "pw-fresh", totp_now(NewSecret, now)>>,
     <<"fresh", "pw-fresh", EnrolledCode>>,
     <<"basic", "pw-basic", NoCode>>}

NextEnroll ==
    \/ \E form \in EnrollLogins : login_action(form[1], form[2], form[3])
    \/ logout
    \/ \E view \in AdminViews \ {"url_detail"} : AdminView(view, cookie)
    \/ url_detail(cookie, "abc-def")
    \/ setup_totp_page(cookie)
    \/ \E code \in {totp_now(NewSecret, now), EnrolledCode} :
         setup_totp_action(cookie, NewSecret, code)
    \/ ApiShorten("key-admin", NoToken, HomeUrl, None, NoTime)
    \/ Deactivate("admin")

SpecEnroll == Init /\ [][NextEnroll]_vars

\* C14: login_action issues a session cookie if and only if the username and
\* password authenticate a principal that is active and superuser and, when
\* its totp_secret is set, a TOTP code is supplied and verifies against it;
\* otherwise no cookie is issued and the session stays as it was.  Hence
\* after enrollment a login without a valid code fails.
C14_LoginIssuesCookie ==
    [][(auth'.op = "login" /\ auth'.status # 429) =>
          LET user == authenticate(auth'.form[1], auth'.form[2], users)
              code == auth'.form[3]
              ok == /\ user # NoDoc
                    /\ user.is_active
                    /\ user.is_superuser
                    /\ user.totp_secret # None =>
                          (code # NoCode
                             /\ totp_verify(user.totp_secret, code, now))
          IN  IF ok
              THEN /\ cookie' # NoToken
                   /\ jwt_decode(cookie', now).ok
                   /\ jwt_decode(cookie', now).sub = user.id
                   /\ auth'.status = 200
                   /\ last' = Response("login", auth'.form[1], 302, "")
              ELSE /\ cookie' = cookie
                   /\ auth'.status = 401
                   /\ last'.status = 401]_vars

\* A principal that enrolled was refused a login with the right password
\* and no code.
C14_Witness ==
    /\ auth.op = "login"
    /\ auth.form = <<"fresh", "pw-fresh", NoCode>>
    /\ users["fresh"].totp_secret = NewSecret
    /\ auth.detail = "TOTP code required"
    /\ cookie = NoToken

\* C15: for a logged-in active superuser whose totp_secret is unset every
\* protected admin view (dashboard, list_users, list_urls, url_detail)
\* answers with the redirect to setup-totp and renders nothing, until
\* setup_totp_action has persisted a secret; from then on the views render
\* for that principal (url_detail, when the link exists).
C15_ViewsNeedEnrollment ==
    (auth.op \in AdminViews /\ auth.status = 200) =>
        IF users[auth.user].totp_secret = None
        THEN last = Response(auth.op, None, 302, "setup-totp")
        ELSE IF auth.op = "url_detail"
        THEN \/ last = Response(auth.op, "abc-def", 200, "")
             \/ /\ get_by_ident("abc-def", FALSE, urls, now) = NoDoc
                /\ last = Response(auth.op, "abc-def", 302, "urls")
        ELSE last = Response(auth.op, None, 200, "")

\* The principal that logged in without a secret enrolled, and a view
\* rendered for it.
C15_Witness ==
    /\ auth.op \in AdminViews
    /\ auth.user = "fresh"
    /\ users["fresh"].totp_secret = NewSecret
    /\ last.status = 200

\* C16: setup_totp_action persists the secret on the principal only when the
\* submitted code verifies against the submitted secret; when it does not,
\* the response is an error and the stored totp_secret is unchanged, so the
\* principal stays without a secret.
C16_EnrollmentNeedsCode ==
    [][/\ auth'.op = "setup_totp_action" =>
             IF auth'.status = 200
                  /\ totp_verify(auth'.form[1], auth'.form[2], now)
             THEN /\ users' = [users EXCEPT
                                 ![auth'.user].totp_secret = auth'.form[1]]
                  /\ last'.status = 302
             ELSE /\ users' = users
                  /\ auth'.status = 200 =>
                        last' = Response("setup_totp_action", None, 400,
                                         "Invalid code")
       /\ \A u \in UserIds :
             (/\ users[u] # NoDoc /\ users'[u] # NoDoc
              /\ users'[u].totp_secret # users[u].totp_secret) =>
                (auth'.op = "setup_totp_action" /\ auth'.user = u)]_vars

\* A logged-in principal without a secret submitted a code that does not
\* verify and still has no secret.
C16_Witness ==
    /\ auth.op = "setup_totp_action"
    /\ auth.user = "fresh"
    /\ last.status = 400
    /\ users["fresh"].totp_secret = None

-----------------------------------------------------------------------------
(* updated_at and created_at under the API update and the admin form *)

UpdateWorker == "w1"

UpdatePayloads ==
    {Payload({"url"}, [scheme |-> "https", host |-> "example.net", path |-> "/b"],
             None, NoTime),
     Payload({"external_id"}, NoUrl, "promo-2", NoTime),
     Payload({"expires_at"}, NoUrl, None, 2)}

\* One link is created and then updated through PATCH /ident/{ident},
\* PATCH /external/{external_id} and the admin form.  A handler reads the
\* clock right before its save: the clock advances between requests.
NextUpdate ==
    \/ Shorten(HomeUrl, "promo-1", NoTime, None) /\ UNCHANGED authVars
    \/ \E i \in generate_ident, p \in UpdatePayloads :
          UpdateLoad(UpdateWorker, "ident", i, p) /\ UNCHANGED authVars
    \/ \E e \in ExternalIds, p \in UpdatePayloads :
          UpdateLoad(UpdateWorker, "external_id", e, p) /\ UNCHANGED authVars
    \/ \E i \in generate_ident, e \in {None, "", "promo-1"},
          x \in {FormAbsent, FormEmpty, FormGarbage, FormTime(2)} :
          AdminUpdateLoad(UpdateWorker, NoToken, i, "https://example.net/c", e, x)
          /\ UNCHANGED authVars
    \/ Save(UpdateWorker) /\ UNCHANGED authVars
    \/ Free(UpdateWorker) /\ Tick /\ UNCHANGED authVars

SpecUpdate == Init /\ [][NextUpdate]_vars

\* The documents differ in origin, external_id or expires_at.
Changed(old, new) ==
    \/ old.origin # new.origin
    \/ old.external_id # new.external_id
    \/ old.expires_at # new.expires_at

\* C20: a step that changes origin, external_id or expires_at of a stored
\* link leaves its updated_at at the time of the step, and no step changes
\* the created_at of a stored link.
C20_ChangesAreStamped ==
    [][\A j \in Stored(urls) :
          urls'[j] # NoDoc =>
             /\ urls'[j].created_at = urls[j].created_at
             /\ Changed(urls[j], urls'[j]) => urls'[j].updated_at = now]_vars

\* The same of the changes made through the API update alone, which holds.
ApiChangesAreStamped ==
    [][\A j \in Stored(urls) :
          urls'[j] # NoDoc =>
             /\ urls'[j].created_at = urls[j].created_at
             /\ Changed(urls[j], urls'[j]) /\ last'.op = "update" =>
                   urls'[j].updated_at = now]_vars

-----------------------------------------------------------------------------
(* Updates field by field *)

ExampleNet == [scheme |-> "https", host |-> "example.net", path |-> "/b"]

\* Requests that supply every subset of the three fields, each with a value
\* and with an explicit null.
FieldPayloads ==
    {Payload(f, u, e, x) :
        f \in SUBSET {"url", "external_id", "expires_at"},
        u \in {NoUrl, ExampleNet}, e \in {None, "promo-2"}, x \in {NoTime, 2}}

\* The admin forms: origin is required, external_id and expires_at may be
\* left out of the form.
FormExternalIds == {None, "", "promo-2"}
FormExpiresAt == {FormAbsent, FormEmpty, FormGarbage, FormTime(2)}

\* C21: whatever link is stored, the API update leaves a field the request
\* does not supply as it was and replaces a supplied field by the supplied
\* value (null included), and the admin url_update leaves external_id and
\* expires_at as they were when the form does not carry them and replaces
\* them by the form's values when it does.
C21_FieldByField ==
    \A j \in Stored(urls) :
        /\ \A p \in FieldPayloads :
              LET new == update_short_url_fields(urls[j], p, now)
              IN  /\ new.origin = IF "url" \notin p.fields THEN urls[j].origin
                                  ELSE IF p.url = NoUrl THEN None
                                  ELSE encoded_string(p.url)
                  /\ new.external_id = IF "external_id" \in p.fields
                                       THEN p.external_id ELSE urls[j].external_id
                  /\ new.expires_at = IF "expires_at" \in p.fields
                                      THEN p.expires_at ELSE urls[j].expires_at
        /\ \A e \in FormExternalIds, x \in FormExpiresAt :
              LET new == url_update_fields(urls[j], "https://example.net/c", e, x)
              IN  /\ new.origin = "https://example.net/c"
                  /\ new.external_id = IF e = None THEN urls[j].external_id
                                       ELSE IF e = "" THEN None ELSE e
                  /\ new.expires_at = IF x = FormAbsent THEN urls[j].expires_at
                                      ELSE IF x = FormEmpty THEN NoTime
                                      ELSE IF strptime(x).ok THEN strptime(x).value
                                      ELSE urls[j].expires_at

\* The same of the API update alone, for requests that do not supply a null
\* url: it holds.
ApiFieldByField ==
    \A j \in Stored(urls) :
        \A p \in {q \in FieldPayloads : "url" \in q.fields => q.url # NoUrl} :
            LET new == update_short_url_fields(urls[j], p, now)
            IN  /\ new.origin = IF "url" \in p.fields
                                THEN encoded_string(p.url) ELSE urls[j].origin
                /\ new.external_id = IF "external_id" \in p.fields
                                     THEN p.external_id ELSE urls[j].external_id
                /\ new.expires_at = IF "expires_at" \in p.fields
                                    THEN p.expires_at ELSE urls[j].expires_at

\* The admin url_update keeps the fields its form does not carry.
AdminFieldByField ==
    \A j \in Stored(urls) :
        LET new == url_update_fields(urls[j], "https://example.net/c", None, FormAbsent)
        IN  new.external_id = urls[j].external_id /\ new.expires_at = urls[j].expires_at

-----------------------------------------------------------------------------
(* Visits interleaved with updates *)

\* C22: no step lowers the views of a stored link, whatever the interleaving
\* of visits with API updates and admin url_updates of the same link.
C22_ViewsNeverDecrease ==
    [][\A j \in Stored(urls) :
          urls'[j] # NoDoc => urls'[j].views >= urls[j].views]_vars

-----------------------------------------------------------------------------
(* Overlapping updates of one link *)

\* One request supplies only url, the other only expires_at.
OverlapPayloads ==
    {Payload({"url"}, ExampleNet, None, NoTime),
     Payload({"expires_at"}, NoUrl, None, 2)}

\* Links are created with another origin and another expires_at, and the
\* PATCH requests of two clients overlap.
NextOverlap ==
    \/ \E e \in {None, "promo-1"} : Shorten(HomeUrl, e, 1, None) /\ UNCHANGED authVars
    \/ \E w \in Workers, i \in generate_ident, p \in OverlapPayloads :
          UpdateLoad(w, "ident", i, p) /\ UNCHANGED authVars
    \/ \E w \in Workers, p \in OverlapPayloads :
          UpdateLoad(w, "external_id", "promo-1", p) /\ UNCHANGED authVars
    \/ \E w \in Workers : Save(w) /\ UNCHANGED authVars
    \/ Tick /\ UNCHANGED authVars

SpecOverlap == Init /\ [][NextOverlap]_vars

\* C23: once an update has written the url it supplied, or the expires_at
\* it supplied, no later step of an overlapping update that did not supply
\* that field puts the older value back, and every update is answered 200.
C23_DisjointUpdatesBothApply ==
    [][/\ \A j \in Stored(urls) :
            urls'[j] # NoDoc =>
               /\ urls[j].origin = encoded_string(ExampleNet) =>
                     urls'[j].origin = encoded_string(ExampleNet)
               /\ urls[j].expires_at = 2 => urls'[j].expires_at = 2
       /\ last'.op = "update" => last'.status \in {200, 404}]_vars

-----------------------------------------------------------------------------
(* Enrollment of an enrolled principal *)

\* C25: no step changes the totp_secret of a principal that has one, and
\* setup_totp_page shows a new secret only to a principal without one.
C25_EnrollmentIsFinal ==
    [][/\ \A u \in UserIds :
            (users[u] # NoDoc /\ users'[u] # NoDoc /\ users[u].totp_secret # None)
               => users'[u].totp_secret = users[u].totp_secret
       /\ (auth'.op = "setup_totp_page" /\ last'.status = 200)
               => auth'.user # None /\ users[auth'.user].totp_secret = None]_vars

\* The page alone: a new secret is shown only to a principal without one.
SetupPageOnlyForUnenrolled ==
    [][(auth'.op = "setup_totp_page" /\ last'.status = 200)
          => auth'.user # None /\ users[auth'.user].totp_secret = None]_vars

-----------------------------------------------------------------------------
(* Read, update and delete by identifier and by external_id *)

CrudKey == "key-admin"
CrudIdents == {"abc-def"}
CrudExternalIds == {"promo-1"}
CrudPayload == Payload({"expires_at"}, NoUrl, None, 2)

\* A superuser creates links with and without external_id and reads,
\* updates and deletes by both keys; the requests of two clients overlap.
NextCrud ==
    \/ \E e \in CrudExternalIds \cup {None} :
         ApiShorten(CrudKey, NoToken, HomeUrl, e, NoTime)
    \/ \E i \in CrudIdents : ApiRead(CrudKey, NoToken, "ident", i)
    \/ \E e \in CrudExternalIds : ApiRead(CrudKey, NoToken, "external_id", e)
    \/ \E w \in Workers, i \in CrudIdents :
         ApiUpdate(w, CrudKey, NoToken, "ident", i, CrudPayload)
    \/ \E w \in Workers, e \in CrudExternalIds :
         ApiUpdate(w, CrudKey, NoToken, "external_id", e, CrudPayload)
    \/ \E w \in Workers, i \in CrudIdents :
         ApiDelete(w, CrudKey, NoToken, "ident", i)
    \/ \E w \in Workers, e \in CrudExternalIds :
         ApiDelete(w, CrudKey, NoToken, "external_id", e)
    \/ \E w \in Workers : Save(w) /\ Quiet
    \/ \E w \in Workers : Delete(w) /\ Quiet

SpecCrud == Init /\ [][NextCrud]_vars

\* The record a request names: by identifier, or by external_id.
Lookup(key, store, t) ==
    IF key \in generate_ident THEN get_by_ident(key, FALSE, store, t)
    ELSE get_by_external_id(key, store)

\* C24: a superuser's read, update or delete is answered 404 exactly when
\* its identifier or external_id names no stored record, and then the store
\* and the requests in flight are as before; a delete answered 204 removes
\* the record it loaded and no other, and right after it the record's
\* identifier and external_id name no stored record (a read answers 404).
C24_NotFoundAndDelete ==
    [][/\ (auth'.op \in SuperuserOps /\ auth'.status = 200) =>
            \/ /\ last'.op = auth'.op /\ last'.status = 404
               /\ Lookup(last'.key, urls, now) = NoDoc
               /\ urls' = urls /\ req' = req
            \/ /\ auth'.op = "read"
               /\ last'.op = "read" /\ last'.status = 200
               /\ Lookup(last'.key, urls, now) # NoDoc
               /\ urls' = urls /\ req' = req
            \/ /\ auth'.op \in {"update", "delete"}
               /\ urls' = urls
               /\ \E w \in Workers :
                     /\ Free(w) /\ req'[w].op = auth'.op
                     /\ req'[w].doc.id \in Stored(urls)
       /\ \A w \in Workers :
            (req[w].pc = "deleting" /\ req'[w] = Idle) =>
               LET id == req[w].doc.id
               IN  /\ last'.op = "delete" /\ last'.status = 204
                   /\ urls'[id] = NoDoc
                   /\ \A j \in UrlIds \ {id} : urls'[j] = urls[j]
                   /\ urls[id] # NoDoc =>
                         /\ Lookup(urls[id].ident, urls', now) = NoDoc
                         /\ urls[id].external_id # None =>
                               Lookup(urls[id].external_id, urls', now) = NoDoc]_vars

\* A delete by external_id has just removed one of two stored records, and
\* the other is stored as before.
C24_Witness ==
    /\ last.op = "delete" /\ last.status = 204
    /\ Cardinality(Stored(urls)) = 1
    /\ nextId = 3
    /\ Lookup("promo-1", urls, now) = NoDoc

\* A request for a record that is not stored was answered 404.
C24_NotFoundReached ==
    /\ auth.op \in SuperuserOps /\ last.status = 404
    /\ Stored(urls) # {}

-----------------------------------------------------------------------------
(* Where the token in the session cookie comes from *)

ProvenanceLogins ==
    {<<"admin", "pw-admin", EnrolledCode>>, <<"admin", "pw-admin", NoCode>>,
     <<"fresh", "pw-fresh", NoCode>>}

\* The client holds the session cookie of its last login and a token that
\* create_access_token made for the bearer scheme, and sends either of them
\* as the cookie access_token; a principal without totp_secret enrolls.
NextProvenance ==
    \/ \E form \in ProvenanceLogins : login_action(form[1], form[2], form[3])
    \/ logout
    \/ IssueToken("admin", ACCESS_TOKEN_EXPIRE_MINUTES)
    \/ \E sent \in {cookie, bearer} : AdminView("dashboard", sent)
    \/ setup_totp_action(cookie, NewSecret, totp_now(NewSecret, now))
    \/ Advance

SpecProvenance == Init /\ [][NextProvenance]_vars

\* C26: a protected view renders for a principal with a totp_secret only
\* when the cookie sent is the session token that login_action issued, not a
\* token create_access_token made on another path; and a token issued
\* before its principal enrolled does not open the Authenticated state once
\* the totp_secret is set.
C26_OnlyVerifiedLoginOpens ==
    [][/\ (/\ auth'.op \in AdminViews
           /\ auth'.status = 200
           /\ users[auth'.user].totp_secret # None) =>
              (cookie # NoToken /\ auth'.cookie = cookie)
       /\ \A u \in UserIds :
            (/\ users[u] # NoDoc /\ users'[u] # NoDoc
             /\ users[u].totp_secret = None
             /\ users'[u].totp_secret # None) =>
                \A tk \in {cookie', bearer'} \ {NoToken} :
                    tk.sub = u => ~Authenticated(tk, users', now')]_vars

-----------------------------------------------------------------------------
(* Credentials that outlive the capabilities of their principal *)

\* admin holds a session cookie and a bearer token; then it is deactivated,
\* loses is_superuser or is deleted, and goes on sending both.
NextRevoke ==
    \/ login_action("admin", "pw-admin", EnrolledCode)
    \/ IssueToken("admin", ACCESS_TOKEN_EXPIRE_MINUTES)
    \/ Deactivate("admin")
    \/ Demote("admin")
    \/ \E u \in {"admin", "basic"} : delete_user(cookie, u)
    \/ \E view \in {"dashboard", "list_users"} : AdminView(view, cookie)
    \/ setup_totp_page(cookie)
    \/ ApiShorten(None, bearer, HomeUrl, None, NoTime)
    \/ ApiRead(None, bearer, "list", None)
    \/ Advance

SpecRevoke == Init /\ [][NextRevoke]_vars

\* The token validates and names this principal.
TokenOf(tk, u) ==
    tk # NoToken /\ jwt_decode(tk, now).ok /\ jwt_decode(tk, now).sub = u

\* The stored principal has lost what the operation asks for: it is
\* deleted, or not active, or (superuser = TRUE) not a superuser.
Revoked(u, superuser) ==
    \/ User_get(u, users) = NoDoc
    \/ ~User_get(u, users).is_active
    \/ superuser /\ ~User_get(u, users).is_superuser

AdminOps == GatedAdminOps \cup AdminMutations

\* C27: a request that carries an unexpired token or cookie of a principal
\* that is, by now, deleted, deactivated or no superuser is rejected: on the
\* API surface by get_current_user (deleted), get_current_active_user
\* (deactivated) and get_current_active_superuser (no superuser), on the
\* admin surface by get_current_admin_user, and it changes nothing.
C27_FlagsReadOnEveryRequest ==
    [][\A u \in UserIds :
          /\ (/\ auth'.op \in ApiOps /\ auth'.api_key = None
              /\ TokenOf(auth'.token, u)) =>
                /\ User_get(u, users) = NoDoc => auth'.resolver.status # 200
                /\ Revoked(u, auth'.op \in SuperuserOps) =>
                      /\ auth'.status # 200
                      /\ last'.status = auth'.status
                      /\ urls' = urls
          /\ (auth'.op \in AdminOps /\ TokenOf(auth'.cookie, u)
                 /\ Revoked(u, TRUE)) =>
                /\ auth'.status = 302
                /\ users' = users /\ urls' = urls]_vars

\* The same of the requests to the routes that declare a dependency.
GatedRequestsReadFlags ==
    [][\A u \in UserIds :
          /\ (/\ auth'.op \in ApiOps /\ auth'.api_key = None
              /\ TokenOf(auth'.token, u)) =>
                /\ User_get(u, users) = NoDoc => auth'.resolver.status # 200
                /\ Revoked(u, auth'.op \in SuperuserOps) =>
                      /\ auth'.status # 200
                      /\ last'.status = auth'.status
                      /\ urls' = urls
          /\ (auth'.op \in GatedAdminOps /\ TokenOf(auth'.cookie, u)
                 /\ Revoked(u, TRUE)) =>
                /\ auth'.status = 302
                /\ users' = users /\ urls' = urls]_vars

\* A deactivated, demoted or deleted principal's unexpired credential was
\* just refused on a route that declares a dependency.
RevokedWasRefused ==
    \E u \in UserIds :
        /\ Revoked(u, TRUE)
        /\ \/ auth.op \in ApiOps /\ TokenOf(auth.token, u) /\ auth.status # 200
           \/ auth.op \in GatedAdminOps /\ TokenOf(auth.cookie, u) /\ auth.status = 302

====
